---- MODULE Spec2Model ----
(***************************************************************************)
(* Query processing (src/search/query.rs), block merging, the result       *)
(* limiter and path resolution (src/path_resolver/mod.rs) of probe.        *)
(*                                                                         *)
(* Strings are sequences of one-character strings, so that lowercasing,    *)
(* splitting, escaping and concatenation are computed character by         *)
(* character.  A harness state holds one call: `op` names the function,    *)
(* the argument variables hold its inputs and the result variables what    *)
(* the function returned once `pc` has left "call".                        *)
(***************************************************************************)
EXTENDS Integers, Sequences, FiniteSets, TLC

VARIABLES
    op,                     \* the function the harness calls
    pc,                     \* "call" before the call, "done" after, "again" after a
                            \* re-merge, "walk" while the limiter walks the blocks
    query, exact,           \* arguments of preprocess_query
    pairs,                  \* what preprocess_query returned
    s,                      \* argument of regex_escape
    escaped,                \* what regex_escape returned
    term_pairs,             \* argument of create_term_patterns
    patterns,               \* what create_term_patterns returned
    concatenated_patterns,  \* its local HashMap: [i, j] -> the group's concatenations
    grouped_perms,          \* the permutations that reached the push into a group
    code_blocks,            \* argument of merge_code_blocks
    merged,                 \* what merge_code_blocks returned
    ranked,                 \* the limiter's input: blocks in rank order
    max_results, max_bytes, max_tokens,   \* the limits
    candidates,             \* the ranked blocks after truncation to max_results
    cursor,                 \* how many candidates the limiter has walked past
    accepted,               \* the positions (in ranked) of the accepted blocks
    skipped,                \* the positions of the blocks skipped as over budget
    total_bytes,            \* cumulative bytes of the accepted blocks
    total_tokens,           \* cumulative estimated tokens of the accepted blocks
    path,                   \* argument of resolve_path
    calls,                  \* the resolver methods resolve_path called, in order
    resolved                \* what resolve_path returned

limiter_vars == <<ranked, max_results, max_bytes, max_tokens, candidates, cursor,
                  accepted, skipped, total_bytes, total_tokens>>
resolver_vars == <<path, calls, resolved>>

vars == <<op, pc, query, exact, pairs, s, escaped, term_pairs, patterns,
          concatenated_patterns, grouped_perms, code_blocks, merged,
          limiter_vars, resolver_vars>>

(***************************************************************************)
(* Bounds of the explored inputs.                                          *)
(***************************************************************************)
MaxWords == 3
MaxLen == 3
MaxTerms == 2
MaxBlocks == 3
MaxRanked == 3

(***************************************************************************)
(* Characters.                                                             *)
(***************************************************************************)
Uppers == <<"A", "B", "C", "D", "E", "F", "G", "H", "I", "J", "K", "L", "M",
            "N", "O", "P", "Q", "R", "S", "T", "U", "V", "W", "X", "Y", "Z">>
Lowers == <<"a", "b", "c", "d", "e", "f", "g", "h", "i", "j", "k", "l", "m",
            "n", "o", "p", "q", "r", "s", "t", "u", "v", "w", "x", "y", "z">>
Digits == {"0", "1", "2", "3", "4", "5", "6", "7", "8", "9"}
Whitespace == {" ", "\t", "\n"}

IsUpper(c) == \E i \in 1..Len(Uppers) : Uppers[i] = c
IsLower(c) == \E i \in 1..Len(Lowers) : Lowers[i] = c
IsDigit(c) == c \in Digits

\* char::to_lowercase on the ASCII range
char_to_lowercase(c) ==
    IF IsUpper(c) THEN Lowers[CHOOSE i \in 1..Len(Uppers) : Uppers[i] = c] ELSE c

\* str::to_lowercase
to_lowercase(str) == [i \in 1..Len(str) |-> char_to_lowercase(str[i])]

\* str::split_whitespace: the maximal runs of non-whitespace characters, in order
split_whitespace(str) ==
    LET F[i \in 0..Len(str)] ==
            \* <<tokens closed so far, the token being read>>
            IF i = 0 THEN <<<<>>, <<>>>>
            ELSE LET prev == F[i - 1]
                     done == prev[1]
                     cur  == prev[2]
                 IN  IF str[i] \in Whitespace
                     THEN IF cur = <<>> THEN <<done, <<>>>>
                                        ELSE <<Append(done, cur), <<>>>>
                     ELSE <<done, Append(cur, str[i])>>
        last == F[Len(str)]
    IN  IF last[2] = <<>> THEN last[1] ELSE Append(last[1], last[2])

\* Iterator::flat_map over a sequence of sequences
Flatten(seqs) ==
    LET F[i \in 0..Len(seqs)] == IF i = 0 THEN <<>> ELSE F[i - 1] \o seqs[i]
    IN  F[Len(seqs)]

(***************************************************************************)
(* Collaborators of preprocess_query that live outside query.rs.           *)
(***************************************************************************)
\* tokenization::split_camel_case: a boundary lies between str[i] and str[i+1]
\* at lowercase -> uppercase, at a letter/digit change, and before the last
\* capital of an acronym that is followed by a lowercase letter.
IsLetter(c) == IsUpper(c) \/ IsLower(c)
CamelBoundary(str, i) ==
    \/ IsLower(str[i]) /\ IsUpper(str[i + 1])
    \/ IsLetter(str[i]) /\ IsDigit(str[i + 1])
    \/ IsDigit(str[i]) /\ IsLetter(str[i + 1])
    \/ /\ IsUpper(str[i]) /\ IsUpper(str[i + 1])
       /\ i + 2 <= Len(str) /\ IsLower(str[i + 2])

split_camel_case(word) ==
    LET F[i \in 0..Len(word)] ==
            IF i = 0 THEN <<<<>>, <<>>>>
            ELSE LET prev == F[i - 1]
                     done == prev[1]
                     cur  == Append(prev[2], word[i])
                 IN  IF i < Len(word) /\ CamelBoundary(word, i)
                     THEN <<Append(done, cur), <<>>>>
                     ELSE <<done, cur>>
        last == F[Len(word)]
    IN  IF last[2] = <<>> THEN last[1] ELSE Append(last[1], last[2])

\* tokenization::is_english_stop_word
StopWords == { <<"t", "h", "e">>, <<"i", "s">>, <<"a">>, <<"o", "f">> }
is_english_stop_word(word) == word \in StopWords

\* ranking::get_stemmer().stem: the suffix rules of an English stemmer that the
\* explored words exercise (-ing and plural -s)
HasVowel(str) == \E i \in 1..Len(str) : str[i] \in {"a", "e", "i", "o", "u"}
EndsWith(str, suf) ==
    Len(str) >= Len(suf) /\ SubSeq(str, Len(str) - Len(suf) + 1, Len(str)) = suf
stem(word) ==
    IF EndsWith(word, <<"i", "n", "g">>) /\ HasVowel(SubSeq(word, 1, Len(word) - 3))
    THEN SubSeq(word, 1, Len(word) - 3)
    ELSE IF EndsWith(word, <<"s">>) /\ ~EndsWith(word, <<"s", "s">>)
            /\ HasVowel(SubSeq(word, 1, Len(word) - 1))
         THEN SubSeq(word, 1, Len(word) - 1)
         ELSE word

(***************************************************************************)
(* preprocess_query                                                         *)
(***************************************************************************)
\* the exact branch with the stemmer applied
exact_pairs_stemmed(lowercase_query) ==
    LET words == SelectSeq(split_whitespace(lowercase_query), LAMBDA w : w # <<>>)
    IN  [i \in 1..Len(words) |-> <<words[i], stem(words[i])>>]

\* the exact branch: one (t, t) per whitespace token
exact_pairs(lowercase_query) ==
    LET words == SelectSeq(split_whitespace(lowercase_query), LAMBDA w : w # <<>>)
    IN  [i \in 1..Len(words) |-> <<words[i], words[i]>>]

\* the filter of the non-exact branch
keep_word(word) == word # <<>> /\ ~is_english_stop_word(word)

\* the non-exact branch with repeated words dropped
stemmed_pairs_dedup(lowercase_query) ==
    LET ws    == split_whitespace(lowercase_query)
        parts == Flatten([i \in 1..Len(ws) |-> split_camel_case(ws[i])])
        words == SelectSeq(parts, keep_word)
        firsts == {i \in 1..Len(words) : \A j \in 1..(i - 1) : words[j] # words[i]}
    IN  [k \in 1..Cardinality(firsts) |->
            LET i == CHOOSE x \in firsts : Cardinality({y \in firsts : y <= x}) = k
            IN  <<words[i], stem(words[i])>>]

\* the non-exact branch: split, filter, stem
stemmed_pairs(lowercase_query) ==
    LET ws    == split_whitespace(lowercase_query)
        parts == Flatten([i \in 1..Len(ws) |-> split_camel_case(ws[i])])
        words == SelectSeq(parts, keep_word)
    IN  [i \in 1..Len(words) |-> <<words[i], stem(words[i])>>]

preprocess_query(q, ex) ==
    LET lowercase_query == to_lowercase(q)
    IN  IF ex THEN exact_pairs(lowercase_query) ELSE stemmed_pairs(lowercase_query)

(***************************************************************************)
(* regex_escape                                                             *)
(***************************************************************************)
\* the list without the backslash
special_chars_without_backslash ==
    {".", "^", "$", "*", "+", "?", "(", ")", "[", "]", "{", "}", "|"}

special_chars == {".", "^", "$", "*", "+", "?", "(", ")", "[", "]", "{", "}", "|", "\\"}

\* what the loop body pushes for one character
escape_char(c) == IF c \in special_chars THEN <<"\\", c>> ELSE <<c>>

regex_escape(str) ==
    LET F[i \in 0..Len(str)] == IF i = 0 THEN <<>> ELSE F[i - 1] \o escape_char(str[i])
    IN  F[Len(str)]

(***************************************************************************)
(* create_term_patterns                                                     *)
(***************************************************************************)
\* base_pattern without the stemmed alternative
base_pattern_original_only(original, stemmed) == regex_escape(original)

\* the loop's base_pattern for one pair
base_pattern(original, stemmed) ==
    IF original = stemmed
    THEN regex_escape(original)
    ELSE <<"(">> \o regex_escape(original) \o <<"|">> \o regex_escape(stemmed) \o <<")">>

\* format!("(\\b{}|{}\\b)", base_pattern, base_pattern)
boundary_pattern(base) ==
    <<"(", "\\", "b">> \o base \o <<"|">> \o base \o <<"\\", "b", ")">>

\* the entry pushed for the pair at term_idx (0-based)
single_pattern(pair, term_idx) ==
    <<boundary_pattern(base_pattern(pair[1], pair[2])), {term_idx}>>

\* terms built from the originals alone
term_list_originals_only(tps) ==
    [k \in 1..(2 * Len(tps)) |->
        IF k % 2 = 1 THEN <<tps[(k + 1) \div 2][1], ((k + 1) \div 2) - 1>>
                     ELSE <<tps[k \div 2][1], (k \div 2) - 1>>]

\* terms: (original, idx), (stemmed, idx) for every pair, in order
term_list(tps) ==
    [k \in 1..(2 * Len(tps)) |->
        IF k % 2 = 1 THEN <<tps[(k + 1) \div 2][1], ((k + 1) \div 2) - 1>>
                     ELSE <<tps[k \div 2][2], (k \div 2) - 1>>]

\* Itertools::permutations(2): the ordered pairs of distinct positions, in
\* lexicographic order of the positions, as pairs of items
permutations2(items) ==
    LET m == Len(items)
    IN  [k \in 1..(m * (m - 1)) |->
            LET p == ((k - 1) \div (m - 1)) + 1
                r == ((k - 1) % (m - 1)) + 1
                q == IF r < p THEN r ELSE r + 1
            IN  <<items[p], items[q]>>]

\* Itertools::unique: the first occurrence of every value, in order
unique(seq) ==
    LET F[i \in 0..Len(seq)] ==
            IF i = 0 THEN <<>>
            ELSE IF \E j \in 1..(i - 1) : seq[j] = seq[i]
                 THEN F[i - 1] ELSE Append(F[i - 1], seq[i])
    IN  F[Len(seq)]

\* the term indices of a permutation, the key of its group
perm_indices(perm) == <<perm[1][2], perm[2][2]>>

\* the skip decided by the text of the two forms instead of their term index
same_term_by_text(perm) == perm[1][1] = perm[2][1]

\* "different forms of the same term": the permutation is skipped
same_term(perm) == Cardinality({perm[1][2], perm[2][2]}) < 2

\* the concatenated pattern of a permutation
concatenated(perm) == regex_escape(perm[1][1]) \o regex_escape(perm[2][1])

\* the permutations that reach the push into concatenated_patterns, in order
kept_perms(tps) ==
    SelectSeq(unique(permutations2(term_list(tps))), LAMBDA perm : ~same_term(perm))

\* concatenated_patterns after the loop: key -> the concatenations pushed under it
group_map(tps) ==
    LET kept == kept_perms(tps)
        keys == {perm_indices(kept[k]) : k \in 1..Len(kept)}
    IN  [key \in keys |->
            LET mine == SelectSeq(kept, LAMBDA perm : perm_indices(perm) = key)
            IN  [k \in 1..Len(mine) |-> concatenated(mine[k])]]

\* [String]::join(sep)
join(strs, sep) ==
    LET F[i \in 0..Len(strs)] ==
            IF i = 0 THEN <<>>
            ELSE IF i = 1 THEN strs[1]
            ELSE F[i - 1] \o sep \o strs[i]
    IN  F[Len(strs)]

\* every group wrapped in parentheses, the single concatenation too
group_pattern_always_parens(pattern_group) ==
    <<"(">> \o join(pattern_group, <<"|">>) \o <<")">>

\* the pattern text pushed for one group
group_pattern(pattern_group) ==
    IF Len(pattern_group) = 1
    THEN pattern_group[1]
    ELSE <<"(">> \o join(pattern_group, <<"|">>) \o <<")">>

\* the entry pushed for the group under key
compound_pattern(key, pattern_group) ==
    <<group_pattern(pattern_group), {key[1], key[2]}>>

\* every order in which a HashMap may hand out the keys in S
RECURSIVE Orderings(_)
Orderings(S) ==
    IF S = {} THEN {<<>>}
    ELSE UNION {{<<x>> \o rest : rest \in Orderings(S \ {x})} : x \in S}

\* the first loop: one boundary pattern per pair, in order
single_patterns(tps) == [i \in 1..Len(tps) |-> single_pattern(tps[i], i - 1)]

\* the last loop: one entry per group, in the order the HashMap hands them out
emit_groups(groups, order) ==
    [k \in 1..Len(order) |-> compound_pattern(order[k], groups[order[k]])]

\* concatenated_patterns when the function returns (empty for fewer than 2 pairs)
concatenated_groups(tps) == IF Len(tps) > 1 THEN group_map(tps) ELSE <<>>

(***************************************************************************)
(* merge_code_blocks (language module), with the default thresholds.       *)
(***************************************************************************)
BaseThreshold == 5
ContainerThreshold == 20

ContainerKinds == {"struct_type", "enum_item", "class_declaration", "impl_item",
                   "interface_declaration", "trait_item", "mod_item", "namespace"}
IsContainerKind(node_type) == node_type \in ContainerKinds

Min(a, b) == IF a <= b THEN a ELSE b
Max(a, b) == IF a >= b THEN a ELSE b

\* stable sort by start_row
sort_by_start_row(blocks) ==
    LET Insert(sorted, b) ==
            LET k == Cardinality({i \in 1..Len(sorted) : sorted[i].start_row <= b.start_row})
            IN  SubSeq(sorted, 1, k) \o <<b>> \o SubSeq(sorted, k + 1, Len(sorted))
        F[i \in 0..Len(blocks)] == IF i = 0 THEN <<>> ELSE Insert(F[i - 1], blocks[i])
    IN  F[Len(blocks)]

\* the base threshold for every pair of blocks
merge_threshold_base_only(current, B) == BaseThreshold

\* the threshold T for the current block and the next block B
merge_threshold(current, B) ==
    IF IsContainerKind(current.node_type) \/ IsContainerKind(B.node_type)
    THEN Max(ContainerThreshold, BaseThreshold)
    ELSE BaseThreshold

\* B is merged into current
should_merge(current, B) ==
    \/ B.start_row <= current.end_row /\ current.start_row <= B.end_row
    \/ B.start_row - current.end_row <= merge_threshold(current, B)

\* the merged block ending where B ends
merge_pair_end_of_next(current, B) ==
    [start_row  |-> Min(current.start_row, B.start_row),
     end_row    |-> B.end_row,
     start_byte |-> Min(current.start_byte, B.start_byte),
     end_byte   |-> B.end_byte,
     node_type  |-> IF IsContainerKind(current.node_type) THEN current.node_type
                    ELSE IF IsContainerKind(B.node_type) THEN B.node_type
                    ELSE current.node_type]

\* the merged block: min/max of rows and bytes, the container's node_type
merge_pair(current, B) ==
    [start_row  |-> Min(current.start_row, B.start_row),
     end_row    |-> Max(current.end_row, B.end_row),
     start_byte |-> Min(current.start_byte, B.start_byte),
     end_byte   |-> Max(current.end_byte, B.end_byte),
     node_type  |-> IF IsContainerKind(current.node_type) THEN current.node_type
                    ELSE IF IsContainerKind(B.node_type) THEN B.node_type
                    ELSE current.node_type]

merge_code_blocks(blocks) ==
    LET sorted == sort_by_start_row(blocks)
        \* <<flushed blocks, current>> after the first i sorted blocks
        F[i \in 1..Len(sorted)] ==
            IF i = 1 THEN <<<<>>, sorted[1]>>
            ELSE LET prev    == F[i - 1]
                     out     == prev[1]
                     current == prev[2]
                 IN  IF should_merge(current, sorted[i])
                     THEN <<out, merge_pair(current, sorted[i])>>
                     ELSE <<Append(out, current), sorted[i]>>
    IN  IF blocks = <<>> THEN <<>>
        ELSE LET last == F[Len(sorted)] IN Append(last[1], last[2])

(***************************************************************************)
(* The limiter (search_limiter): max_results, then max_bytes and           *)
(* max_tokens together, over the blocks in rank order.                     *)
(***************************************************************************)
\* the character-based estimator: ceil(chars / 4)
estimate_tokens(chars) == (chars + 3) \div 4

\* truncation to max_results
truncate_results(blocks, limit) == SubSeq(blocks, 1, Min(limit, Len(blocks)))

\* the budget check that looks at the bytes alone
fits_budget_bytes_only(block, bytes_so_far, tokens_so_far, byte_limit, token_limit) ==
    bytes_so_far + block.bytes <= byte_limit

\* the block can be added without exceeding either budget
fits_budget(block, bytes_so_far, tokens_so_far, byte_limit, token_limit) ==
    /\ bytes_so_far + block.bytes <= byte_limit
    /\ tokens_so_far + estimate_tokens(block.bytes) <= token_limit

(***************************************************************************)
(* path_resolver: resolve_path.  The resolvers themselves (go, javascript, *)
(* rust) are outside the model; what their methods return is chosen by the *)
(* environment.                                                            *)
(***************************************************************************)
\* the resolvers vector, in its order
resolvers == <<"go", "js", "rust">>

\* PathResolver::prefix
prefix(resolver) ==
    CASE resolver = "go"   -> <<"g", "o", ":">>
      [] resolver = "js"   -> <<"j", "s", ":">>
      [] resolver = "rust" -> <<"r", "u", "s", "t", ":">>

\* str::ends_with for one character
ends_with(str, c) == Len(str) > 0 /\ str[Len(str)] = c

None == [some |-> FALSE]
Some(v) == [some |-> TRUE, value |-> v]
Ok(v) == [ok |-> TRUE, value |-> v]
Err(stage) == [ok |-> FALSE, stage |-> stage]

\* a strip_prefix that does not look at the colon
strip_prefix_without_colon(str, pre) ==
    IF Len(str) >= Len(pre) - 1 /\ SubSeq(str, 1, Len(pre) - 1) = SubSeq(pre, 1, Len(pre) - 1)
    THEN Some(SubSeq(str, Len(pre), Len(str)))
    ELSE None

\* str::strip_prefix
strip_prefix(str, pre) ==
    IF Len(str) >= Len(pre) /\ SubSeq(str, 1, Len(pre)) = pre
    THEN Some(SubSeq(str, Len(pre) + 1, Len(str)))
    ELSE None

\* Path::strip_prefix("/"): the path without its root, when it has one
RECURSIVE without_root(_)
without_root(p) ==
    IF Len(p) > 0 /\ p[1] = "/" THEN without_root(Tail(p)) ELSE p
path_strip_root(p) ==
    IF Len(p) > 0 /\ p[1] = "/" THEN Ok(without_root(p)) ELSE Err("prefix not found")

\* the subpath left as it came from the resolver
relative_subpath_unstripped(sub) == sub

\* Path::new(&sub).strip_prefix("/").unwrap_or_else(|_| Path::new(&sub))
relative_subpath(sub) ==
    LET stripped == path_strip_root(sub)
    IN  IF stripped.ok THEN stripped.value ELSE sub

\* PathBuf::join: an absolute path replaces the base, a relative one is
\* pushed after a separator
path_join(base, p) ==
    IF Len(p) > 0 /\ p[1] = "/" THEN p
    ELSE IF Len(base) > 0 /\ base[Len(base)] # "/" THEN base \o <<"/">> \o p
    ELSE base \o p

\* the body of the if-let: split, resolve, combine
resolve_with(resolver, full_path_after_prefix, split_result, resolve_result) ==
    LET split_call == [resolver |-> resolver, method |-> "split_module_and_subpath",
                       arg |-> full_path_after_prefix, returned |-> split_result]
    IN  IF ~split_result.ok
        THEN [result |-> Err("parse"), calls |-> <<split_call>>]
        ELSE LET module_name == split_result.value.module
                 subpath_opt == split_result.value.sub
                 resolve_call == [resolver |-> resolver, method |-> "resolve",
                                  arg |-> module_name, returned |-> resolve_result]
             IN  IF ~resolve_result.ok
                 THEN [result |-> Err("resolve"), calls |-> <<split_call, resolve_call>>]
                 ELSE LET module_base_path == resolve_result.value
                          final_path ==
                              IF subpath_opt.some /\ subpath_opt.value # <<>>
                              THEN path_join(module_base_path,
                                             relative_subpath(subpath_opt.value))
                              ELSE module_base_path
                      IN  [result |-> Ok(final_path),
                           calls |-> <<split_call, resolve_call>>]

\* the loop over the resolvers, from the k-th on
RECURSIVE resolve_from(_, _, _, _)
resolve_from(k, p, split_result, resolve_result) ==
    IF k > Len(resolvers) THEN [result |-> Ok(p), calls |-> <<>>]
    ELSE IF ~ends_with(prefix(resolvers[k]), ":")
         THEN resolve_from(k + 1, p, split_result, resolve_result)
         ELSE LET stripped == strip_prefix(p, prefix(resolvers[k]))
              IN  IF stripped.some
                  THEN resolve_with(resolvers[k], stripped.value, split_result,
                                    resolve_result)
                  ELSE resolve_from(k + 1, p, split_result, resolve_result)

resolve_path(p, split_result, resolve_result) ==
    resolve_from(1, p, split_result, resolve_result)

(***************************************************************************)
(* The explored inputs.                                                    *)
(***************************************************************************)
SeqsUpTo(S, n) == UNION {[1..k -> S] : k \in 0..n}

\* query words: a stop word, an acronym, a word the stemmer changes, a short
\* stop word, a token with a regex metacharacter, a token with a digit
QueryWords == { <<"T", "h", "e">>, <<"I", "P">>,
                <<"w", "h", "i", "t", "e", "l", "i", "s", "t", "i", "n", "g">>,
                <<"i", "s">>, <<"a", ".", "b">>, <<"v", "2">> }
Separators == { <<" ">>, <<" ", "\n">>, <<>> }
Leads == { <<>>, <<" ">> }
Trails == { <<>>, <<"\t">> }
\* two camel-case queries, as a user types them
HTTPServer == <<"H", "T", "T", "P", "S", "e", "r", "v", "e", "r">>
ipWhitelisting == <<"i", "p", "W", "h", "i", "t", "e", "l", "i", "s", "t", "i", "n", "g">>
CamelCaseQueries == { HTTPServer, ipWhitelisting }
Queries ==
    { lead \o join(ws, sep) \o trail :
        lead \in Leads, sep \in Separators, trail \in Trails,
        ws \in SeqsUpTo(QueryWords, MaxWords) }
    \cup CamelCaseQueries

\* regex_escape inputs: every metacharacter and two plain characters
EscapeAlphabet ==
    {".", "^", "$", "*", "+", "?", "(", ")", "[", "]", "{", "}", "|", "\\", "a", "b"}
EscapeInputs == SeqsUpTo(EscapeAlphabet, MaxLen)

Ip == <<"i", "p">>
Whitelisting == <<"w", "h", "i", "t", "e", "l", "i", "s", "t", "i", "n", "g">>
Whitelist == <<"w", "h", "i", "t", "e", "l", "i", "s", "t">>
TermPairPool == { <<Ip, Ip>>, <<Whitelisting, Whitelist>>, <<Whitelist, Whitelist>>,
                  <<<<"a", ".", "b">>, <<"a", ".", "b">>>> }
\* a three-term query: six groups, of one and of two concatenations
ThreeTerms == << <<Ip, Ip>>, <<Whitelisting, Whitelist>>, <<<<"a", ".", "b">>, <<"a", ".", "b">>>> >>
TermPairLists == SeqsUpTo(TermPairPool, MaxTerms) \cup {ThreeTerms}

\* code blocks of one file: a node's bytes follow its rows
Extents == { <<0, 2>>, <<1, 3>>, <<0, 9>>, <<7, 9>>, <<8, 10>>, <<22, 24>>, <<23, 25>> }
NodeTypes == {"function_item", "struct_type"}
CodeBlock(start_row, end_row, node_type) ==
    [start_row |-> start_row, end_row |-> end_row,
     start_byte |-> 10 * start_row, end_byte |-> 10 * end_row + 9,
     node_type |-> node_type]
BlockPool == { CodeBlock(e[1], e[2], t) : e \in Extents, t \in NodeTypes }
Block(start_row, end_row, start_byte, end_byte, node_type) ==
    [start_row |-> start_row, end_row |-> end_row,
     start_byte |-> start_byte, end_byte |-> end_byte, node_type |-> node_type]

\* the inputs of the tests of merge_code_blocks
TestOverlapBlocks ==
    << Block(1, 5, 10, 50, "function_item"), Block(7, 12, 60, 100, "function_item"),
       Block(4, 8, 45, 65, "function_item") >>
TestNoOverlapBlocks ==
    << Block(1, 5, 10, 50, "function_item"), Block(20, 25, 200, 250, "function_item") >>
TestStructBlocks ==
    << Block(1, 10, 10, 100, "struct_type"), Block(25, 35, 200, 300, "struct_type") >>

BlockLists ==
    SeqsUpTo(BlockPool, MaxBlocks)
        \cup {TestOverlapBlocks, TestNoOverlapBlocks, TestStructBlocks}

\* ranked blocks: content sizes in bytes, scores falling with the rank
BlockSizes == {2, 4, 6, 9}
RankedLists ==
    { [i \in 1..Len(sizes) |-> [bytes |-> sizes[i], score |-> Len(sizes) - i]] :
        sizes \in SeqsUpTo(BlockSizes, MaxRanked) }
ResultLimits == {1, 2, 5}
ByteLimits == {6, 10}
TokenLimits == {1, 2, 3}


\* paths: nothing or a resolver prefix, followed by one of these
SomeRegularPath == <<"/", "s", "o", "m", "e", "/", "r", "e", "g", "u", "l", "a", "r", "/", "p", "a", "t", "h">>
PathRests ==
    { <<>>, SomeRegularPath, <<"l", "o", "d", "a", "s", "h", "/", "g", "e", "t">>, <<"g", "o", "p", "h", "e", "r">>, <<"r", "u", "s", "t">>, <<"x", "/", "g", "o", ":", "y">>, <<"j", "s", ":", "x">>, <<"G", "O", ":", "f", "m", "t">> }
PathPrefixes == { <<>>, <<"g", "o", ":">>, <<"j", "s", ":">>, <<"r", "u", "s", "t", ":">> }
Paths == { pre \o rest : pre \in PathPrefixes, rest \in PathRests }

\* what a resolver's split_module_and_subpath may return
ModuleNames == { <<"l", "o", "d", "a", "s", "h">>, <<"n", "e", "t", "/", "h", "t", "t", "p">> }
Subpaths == { None, Some(<<>>), Some(<<"g", "e", "t">>), Some(<<"/", "g", "e", "t">>), Some(<<"/", "/", "a", "/", "b">>), Some(<<"/">>) }
SplitResults ==
    { Err("split") } \cup
    { Ok([module |-> m, sub |-> sb]) : m \in ModuleNames, sb \in Subpaths }

\* what a resolver's resolve may return
ModuleBasePaths == { <<"/", "m">>, <<"/", "n", "/">> }
ResolveResults == { Err("resolve") } \cup { Ok(b) : b \in ModuleBasePaths }

(***************************************************************************)
(* The harness.                                                            *)
(***************************************************************************)
\* the variables of the limiter and of resolve_path while another function runs
LimiterIdle ==
    /\ ranked = <<>> /\ max_results = 0 /\ max_bytes = 0 /\ max_tokens = 0
    /\ candidates = <<>> /\ cursor = 0 /\ accepted = <<>> /\ skipped = <<>>
    /\ total_bytes = 0 /\ total_tokens = 0
ResolverIdle == path = <<>> /\ calls = <<>> /\ resolved = <<>>

InitPreprocess ==
    /\ op = "preprocess_query" /\ pc = "call"
    /\ query \in Queries /\ exact \in BOOLEAN /\ pairs = <<>>
    /\ s = <<>> /\ escaped = <<>>
    /\ term_pairs = <<>> /\ patterns = <<>>
    /\ concatenated_patterns = <<>> /\ grouped_perms = <<>>
    /\ code_blocks = <<>> /\ merged = <<>>
    /\ LimiterIdle /\ ResolverIdle

InitEscape ==
    /\ op = "regex_escape" /\ pc = "call"
    /\ s \in EscapeInputs /\ escaped = <<>>
    /\ query = <<>> /\ exact = FALSE /\ pairs = <<>>
    /\ term_pairs = <<>> /\ patterns = <<>>
    /\ concatenated_patterns = <<>> /\ grouped_perms = <<>>
    /\ code_blocks = <<>> /\ merged = <<>>
    /\ LimiterIdle /\ ResolverIdle

InitPatterns ==
    /\ op = "create_term_patterns" /\ pc = "call"
    /\ term_pairs \in TermPairLists /\ patterns = <<>>
    /\ concatenated_patterns = <<>> /\ grouped_perms = <<>>
    /\ query = <<>> /\ exact = FALSE /\ pairs = <<>>
    /\ s = <<>> /\ escaped = <<>>
    /\ code_blocks = <<>> /\ merged = <<>>
    /\ LimiterIdle /\ ResolverIdle

InitMerge ==
    /\ op = "merge_code_blocks" /\ pc = "call"
    /\ code_blocks \in BlockLists /\ merged = <<>>
    /\ query = <<>> /\ exact = FALSE /\ pairs = <<>>
    /\ s = <<>> /\ escaped = <<>>
    /\ term_pairs = <<>> /\ patterns = <<>>
    /\ concatenated_patterns = <<>> /\ grouped_perms = <<>>
    /\ LimiterIdle /\ ResolverIdle


PreprocessQuery ==
    /\ op = "preprocess_query" /\ pc = "call"
    /\ pairs' = preprocess_query(query, exact)
    /\ pc' = "done"
    /\ UNCHANGED <<op, query, exact, s, escaped, term_pairs, patterns,
                   concatenated_patterns, grouped_perms, code_blocks, merged>>
    /\ UNCHANGED <<limiter_vars, resolver_vars>>

RegexEscape ==
    /\ op = "regex_escape" /\ pc = "call"
    /\ escaped' = regex_escape(s)
    /\ pc' = "done"
    /\ UNCHANGED <<op, query, exact, pairs, s, term_pairs, patterns,
                   concatenated_patterns, grouped_perms, code_blocks, merged>>
    /\ UNCHANGED <<limiter_vars, resolver_vars>>

\* create_term_patterns(term_pairs); the HashMap's iteration order is not fixed
CreateTermPatterns ==
    /\ op = "create_term_patterns" /\ pc = "call"
    /\ \E singles \in {single_patterns(term_pairs)},
          groups \in {concatenated_groups(term_pairs)},
          kept \in {IF Len(term_pairs) > 1 THEN kept_perms(term_pairs) ELSE <<>>} :
          \E order \in Orderings(DOMAIN groups) :
              /\ patterns' = singles \o emit_groups(groups, order)
              /\ concatenated_patterns' = groups
              /\ grouped_perms' = kept
    /\ pc' = "done"
    /\ UNCHANGED <<op, query, exact, pairs, s, escaped, term_pairs, code_blocks, merged>>
    /\ UNCHANGED <<limiter_vars, resolver_vars>>

\* merge_code_blocks(code_blocks)
MergeCodeBlocks ==
    /\ op = "merge_code_blocks" /\ pc = "call"
    /\ merged' = merge_code_blocks(code_blocks)
    /\ pc' = "done"
    /\ UNCHANGED <<op, query, exact, pairs, s, escaped, term_pairs, patterns,
                   concatenated_patterns, grouped_perms, code_blocks>>
    /\ UNCHANGED <<limiter_vars, resolver_vars>>

\* the result is merged once more: merge_code_blocks(merged)
MergeAgain ==
    /\ op = "merge_code_blocks" /\ pc = "done"
    /\ code_blocks' = merged
    /\ merged' = merge_code_blocks(merged)
    /\ pc' = "again"
    /\ UNCHANGED <<op, query, exact, pairs, s, escaped, term_pairs, patterns,
                   concatenated_patterns, grouped_perms>>
    /\ UNCHANGED <<limiter_vars, resolver_vars>>

SearchIdle ==
    /\ query = <<>> /\ exact = FALSE /\ pairs = <<>>
    /\ s = <<>> /\ escaped = <<>>
    /\ term_pairs = <<>> /\ patterns = <<>>
    /\ concatenated_patterns = <<>> /\ grouped_perms = <<>>
    /\ code_blocks = <<>> /\ merged = <<>>

InitLimiter ==
    /\ op = "limiter" /\ pc = "call"
    /\ ranked \in RankedLists
    /\ max_results \in ResultLimits /\ max_bytes \in ByteLimits /\ max_tokens \in TokenLimits
    /\ candidates = <<>> /\ cursor = 0 /\ accepted = <<>> /\ skipped = <<>>
    /\ total_bytes = 0 /\ total_tokens = 0
    /\ SearchIdle /\ ResolverIdle

query_vars == <<query, exact, pairs, s, escaped, term_pairs, patterns,
                concatenated_patterns, grouped_perms, code_blocks, merged>>

\* max_results is applied first
LimiterTruncate ==
    /\ op = "limiter" /\ pc = "call"
    /\ candidates' = truncate_results(ranked, max_results)
    /\ pc' = "walk"
    /\ UNCHANGED <<op, ranked, max_results, max_bytes, max_tokens, cursor, accepted,
                   skipped, total_bytes, total_tokens, query_vars, resolver_vars>>

\* the next candidate fits both budgets and is accepted
LimiterAccept ==
    /\ op = "limiter" /\ pc = "walk" /\ cursor < Len(candidates)
    /\ fits_budget(candidates[cursor + 1], total_bytes, total_tokens, max_bytes, max_tokens)
    /\ accepted' = Append(accepted, cursor + 1)
    /\ total_bytes' = total_bytes + candidates[cursor + 1].bytes
    /\ total_tokens' = total_tokens + estimate_tokens(candidates[cursor + 1].bytes)
    /\ cursor' = cursor + 1
    /\ UNCHANGED <<op, pc, ranked, max_results, max_bytes, max_tokens, candidates,
                   skipped, query_vars, resolver_vars>>

\* the next candidate would exceed a budget: it is skipped and the walk goes on
LimiterSkip ==
    /\ op = "limiter" /\ pc = "walk" /\ cursor < Len(candidates)
    /\ ~fits_budget(candidates[cursor + 1], total_bytes, total_tokens, max_bytes, max_tokens)
    /\ skipped' = Append(skipped, cursor + 1)
    /\ cursor' = cursor + 1
    /\ UNCHANGED <<op, pc, ranked, max_results, max_bytes, max_tokens, candidates,
                   accepted, total_bytes, total_tokens, query_vars, resolver_vars>>

\* every candidate was looked at
LimiterFinish ==
    /\ op = "limiter" /\ pc = "walk" /\ cursor = Len(candidates)
    /\ pc' = "done"
    /\ UNCHANGED <<op, limiter_vars, query_vars, resolver_vars>>

NextLimiter == LimiterTruncate \/ LimiterAccept \/ LimiterSkip \/ LimiterFinish
SpecLimiter == InitLimiter /\ [][NextLimiter]_vars

InitResolve ==
    /\ op = "resolve_path" /\ pc = "call"
    /\ path \in Paths
    /\ calls = <<>> /\ resolved = <<>>
    /\ SearchIdle /\ LimiterIdle

ResolvePath ==
    /\ op = "resolve_path" /\ pc = "call"
    /\ \E split_result \in SplitResults, resolve_result \in ResolveResults :
          \E out \in {resolve_path(path, split_result, resolve_result)} :
              /\ resolved' = out.result
              /\ calls' = out.calls
    /\ pc' = "done"
    /\ UNCHANGED <<op, path, limiter_vars, query_vars>>

NextResolve == ResolvePath
SpecResolve == InitResolve /\ [][NextResolve]_vars

Next ==
    \/ PreprocessQuery
    \/ RegexEscape
    \/ CreateTermPatterns
    \/ MergeCodeBlocks
    \/ MergeAgain
    \/ LimiterTruncate
    \/ LimiterAccept
    \/ LimiterSkip
    \/ LimiterFinish
    \/ ResolvePath

Init ==
    InitPreprocess \/ InitEscape \/ InitPatterns \/ InitMerge \/ InitLimiter \/ InitResolve

Spec == Init /\ [][Next]_vars

\* the calls of one function at a time
SpecPreprocess == InitPreprocess /\ [][PreprocessQuery]_vars
SpecEscape == InitEscape /\ [][RegexEscape]_vars
SpecPatterns == InitPatterns /\ [][CreateTermPatterns]_vars
NextMerge == MergeCodeBlocks \/ MergeAgain
SpecMerge == InitMerge /\ [][NextMerge]_vars

(***************************************************************************)
(* Properties of create_term_patterns.                                     *)
(***************************************************************************)
PatternsDone == op = "create_term_patterns" /\ pc = "done"

\* the text the specification gives for the single-term pattern of a pair
ExpectedBase(pair) ==
    IF pair[1] = pair[2]
    THEN regex_escape(pair[1])
    ELSE <<"(">> \o regex_escape(pair[1]) \o <<"|">> \o regex_escape(pair[2]) \o <<")">>
ExpectedSingle(pair) ==
    <<"(", "\\", "b">> \o ExpectedBase(pair) \o <<"|">> \o ExpectedBase(pair)
        \o <<"\\", "b", ")">>

\* C1: for a list of n term pairs, the i-th element of the output is the only
\* pattern whose term_indices is {i}, and its text is "(\b" base "|" base "\b)"
\* with base the escaped original when original = stemmed and
\* "(" escaped original "|" escaped stemmed ")" otherwise.
C1_SingleTermPatterns ==
    PatternsDone =>
        /\ Len(patterns) >= Len(term_pairs)
        /\ \A i \in 1..Len(term_pairs) :
              /\ patterns[i][2] = {i - 1}
              /\ patterns[i][1] = ExpectedSingle(term_pairs[i])
              /\ \A k \in 1..Len(patterns) : patterns[k][2] = {i - 1} => k = i

\* C1 witness: two pairs, one stemmed to a different form and one not
C1_Witness ==
    /\ PatternsDone
    /\ Len(term_pairs) = 2
    /\ term_pairs[1][1] = term_pairs[1][2]
    /\ term_pairs[2][1] # term_pairs[2][2]
    /\ patterns[2][2] = {1}

\* the (original, stemmed) forms of the pair with 0-based index i
Forms(i) == {term_pairs[i + 1][1], term_pairs[i + 1][2]}

CompoundTexts == {patterns[k][1] : k \in (Len(term_pairs) + 1)..Len(patterns)}

\* C3 as stated: every compound pattern is its group joined by "|" inside
\* parentheses, whatever the group's size.
C3_AlwaysParenthesised ==
    PatternsDone =>
        \A key \in DOMAIN concatenated_patterns :
            (<<"(">> \o join(concatenated_patterns[key], <<"|">>) \o <<")">>)
                \in CompoundTexts

\* C3 amended: a group of two or more concatenations is joined by "|" inside
\* parentheses; a group of a single concatenation is emitted as that
\* concatenation alone, without parentheses.
C3_ParenthesisedUnlessSingle ==
    PatternsDone =>
        /\ Cardinality(DOMAIN concatenated_patterns) = Len(patterns) - Len(term_pairs)
        /\ \A key \in DOMAIN concatenated_patterns :
              LET group == concatenated_patterns[key]
              IN  IF Len(group) = 1
                  THEN <<group[1], {key[1], key[2]}>> \in
                          {patterns[k] : k \in (Len(term_pairs) + 1)..Len(patterns)}
                  ELSE <<<<"(">> \o join(group, <<"|">>) \o <<")">>, {key[1], key[2]}>> \in
                          {patterns[k] : k \in (Len(term_pairs) + 1)..Len(patterns)}
        /\ \A k \in (Len(term_pairs) + 1)..Len(patterns) :
              \E key \in DOMAIN concatenated_patterns :
                  LET group == concatenated_patterns[key]
                  IN  /\ patterns[k][2] = {key[1], key[2]}
                      /\ patterns[k][1] =
                            IF Len(group) = 1 THEN group[1]
                            ELSE <<"(">> \o join(group, <<"|">>) \o <<")">>

\* C3 witness: a call that produced a group of one concatenation and a group of two
C3_Witness ==
    /\ PatternsDone
    /\ \E key \in DOMAIN concatenated_patterns :
          /\ Len(concatenated_patterns[key]) = 1
          /\ concatenated_patterns[key][1] \in CompoundTexts
    /\ \E key \in DOMAIN concatenated_patterns : Len(concatenated_patterns[key]) = 2

\* text occurs in str
Contains(str, text) ==
    \E i \in 1..(Len(str) - Len(text) + 1) : SubSeq(str, i, i + Len(text) - 1) = text

\* a group matches an identifier when one of its alternatives occurs in the
\* identifier, compared without regard to case
GroupMatches(key, identifier) ==
    /\ key \in DOMAIN concatenated_patterns
    /\ \E a \in 1..Len(concatenated_patterns[key]) :
          Contains(to_lowercase(identifier), concatenated_patterns[key][a])

IpWhitelistingQuery == << <<Ip, Ip>>, <<Whitelisting, Whitelist>> >>

TokenStarts(str) ==
    {i \in 1..Len(str) : str[i] \notin Whitespace /\ (i = 1 \/ str[i - 1] \in Whitespace)}

\* the token of str that starts at position i
TokenAt(str, i) ==
    LET j == CHOOSE e \in i..Len(str) :
                 /\ \A k \in i..e : str[k] \notin Whitespace
                 /\ (e = Len(str) \/ str[e + 1] \in Whitespace)
    IN  SubSeq(str, i, j)

\* the k-th smallest element of a set of numbers
Nth(S, k) == CHOOSE x \in S : Cardinality({y \in S : y <= x}) = k

\* the query with every ASCII capital replaced by its small letter
Lowercased(str) ==
    [i \in 1..Len(str) |->
        IF \E a \in 1..26 : Uppers[a] = str[i]
        THEN Lowers[CHOOSE a \in 1..26 : Uppers[a] = str[i]]
        ELSE str[i]]

\* C5: with exact = true the result holds, in input order, exactly one pair
\* (t, t) per whitespace-separated non-empty token t of the lowercased query:
\* nothing is stemmed and no stop word is dropped.
C5_ExactPairs ==
    (op = "preprocess_query" /\ pc = "done" /\ exact) =>
        \E lq \in {Lowercased(query)} :
            \E starts \in {TokenStarts(lq)} :
                /\ Len(pairs) = Cardinality(starts)
                /\ \A k \in 1..Len(pairs) :
                      \E start \in {Nth(starts, k)} :
                          /\ pairs[k][1] = TokenAt(lq, start)
                          /\ pairs[k][2] = pairs[k][1]
                          /\ pairs[k][1] # <<>>

\* C5 witness: an exact query whose result keeps a stop word and an unstemmed
\* -ing word
C5_Witness ==
    /\ op = "preprocess_query" /\ pc = "done" /\ exact
    /\ Len(pairs) >= 2
    /\ \E k \in 1..Len(pairs) : pairs[k] = <<<<"t", "h", "e">>, <<"t", "h", "e">>>>
    /\ \E k \in 1..Len(pairs) : pairs[k] = <<Whitelisting, Whitelisting>>

\* the whitespace tokens of str, in order
TokensOf(str) ==
    CHOOSE toks \in { [k \in 1..Cardinality(starts) |-> TokenAt(str, Nth(starts, k))] :
                        starts \in {TokenStarts(str)} } : TRUE

\* the camel-case parts of the whitespace tokens of the lowercased query, in
\* query order
QueryParts(q) ==
    CHOOSE parts \in { Flatten([k \in 1..Len(toks) |-> split_camel_case(toks[k])]) :
                         toks \in {TokensOf(lq) : lq \in {Lowercased(q)}} } : TRUE

\* C6: with exact = false the result is the pairs (t, stem(t)) of the tokens
\* that survive filtering, in query order and with duplicates kept; no
\* returned original is empty or a stop word.
C6_StemmedPairs ==
    (op = "preprocess_query" /\ pc = "done" /\ ~exact) =>
        \E parts \in {QueryParts(query)} :
            \E surviving \in {{i \in 1..Len(parts) :
                                  parts[i] # <<>> /\ parts[i] \notin StopWords}} :
                /\ Len(pairs) = Cardinality(surviving)
                /\ \A k \in 1..Len(pairs) :
                      \E i \in {Nth(surviving, k)} :
                          /\ pairs[k][1] = parts[i]
                          /\ pairs[k][2] = stem(parts[i])
                          /\ pairs[k][1] # <<>>
                          /\ pairs[k][1] \notin StopWords

\* C6 witness: a token that occurs twice yields two equal pairs, a stop word
\* between them is dropped and the stem differs from the original
C6_Witness ==
    /\ op = "preprocess_query" /\ pc = "done" /\ ~exact
    /\ Len(pairs) = 2
    /\ pairs[1] = <<Whitelisting, Whitelist>>
    /\ pairs[2] = pairs[1]
    /\ Len(QueryParts(query)) = 3

\* the 14 characters the specification lists
EscapedChars == {".", "^", "$", "*", "+", "?", "(", ")", "[", "]", "{", "}", "|", "\\"}

\* the number of listed characters among the first i characters of str
SpecialsUpTo(str, i) == Cardinality({k \in 1..i : str[k] \in EscapedChars})

\* the text with the backslash in front of every escaped character removed
RECURSIVE Unescape(_)
Unescape(str) ==
    IF str = <<>> THEN <<>>
    ELSE IF Head(str) = "\\" /\ Len(str) >= 2
         THEN <<str[2]>> \o Unescape(SubSeq(str, 3, Len(str)))
         ELSE <<Head(str)>> \o Unescape(Tail(str))

\* C7: regex_escape puts exactly one backslash before each of the 14 listed
\* characters and copies every other character unchanged and in order: the
\* output is as long as the input plus its listed characters, and removing the
\* inserted backslashes gives the input back.
C7_RegexEscape ==
    (op = "regex_escape" /\ pc = "done") =>
        /\ Len(escaped) = Len(s) + SpecialsUpTo(s, Len(s))
        /\ \A i \in 1..Len(s) :
              LET at == i + SpecialsUpTo(s, i)
              IN  /\ escaped[at] = s[i]
                  /\ s[i] \in EscapedChars => escaped[at - 1] = "\\"
        /\ Unescape(escaped) = s

\* C7 witness: an input with a plain character, a metacharacter and a backslash
C7_Witness ==
    /\ op = "regex_escape" /\ pc = "done"
    /\ s = <<"a", ".", "\\">>
    /\ escaped = <<"a", "\\", ".", "\\", "\\">>

(***************************************************************************)
(* Properties of merge_code_blocks.                                        *)
(***************************************************************************)
\* merged is what merge_code_blocks returned for code_blocks
MergeReturned == op = "merge_code_blocks" /\ pc \in {"done", "again"}

\* block a lies inside block b, in rows and in bytes
Inside(a, b) ==
    /\ b.start_row <= a.start_row /\ a.end_row <= b.end_row
    /\ b.start_byte <= a.start_byte /\ a.end_byte <= b.end_byte

\* C8: for an input in any order the result is sorted by start_row, its blocks
\* do not overlap in rows, every input block lies (rows and bytes) inside one
\* output block, and there are no more output blocks than input blocks.
C8_MergeMonotone ==
    MergeReturned =>
        /\ \A i \in 1..(Len(merged) - 1) :
              /\ merged[i].start_row <= merged[i + 1].start_row
              /\ merged[i].end_row < merged[i + 1].start_row
        /\ \A i \in 1..Len(code_blocks) :
              \E k \in 1..Len(merged) : Inside(code_blocks[i], merged[k])
        /\ Len(merged) <= Len(code_blocks)

\* C8 witness: an unsorted input with a nested block, merged into two blocks
C8_Witness ==
    /\ op = "merge_code_blocks" /\ pc = "done"
    /\ Len(code_blocks) = 3
    /\ code_blocks[1].start_row > code_blocks[2].start_row
    /\ code_blocks[2].end_row > code_blocks[3].end_row
    /\ code_blocks[2].start_row < code_blocks[3].start_row
    /\ Len(merged) = 2

\* C9: merging is idempotent: merging the result again returns it unchanged
C9_MergeIdempotent ==
    (op = "merge_code_blocks" /\ pc = "again") => merged = code_blocks

\* the two blocks of a two-block input, in start_row order
First(blocks) ==
    IF blocks[1].start_row <= blocks[2].start_row THEN blocks[1] ELSE blocks[2]
Second(blocks) ==
    IF blocks[1].start_row <= blocks[2].start_row THEN blocks[2] ELSE blocks[1]

\* C10: with the default thresholds two container blocks whose gap is at most
\* 20 become one block from the smaller start_row to the larger end_row, and
\* two non-container blocks whose gap is more than 5 stay two blocks.
C10_ContainerThreshold ==
    (op = "merge_code_blocks" /\ pc = "done" /\ Len(code_blocks) = 2) =>
        LET a   == First(code_blocks)
            b   == Second(code_blocks)
            gap == b.start_row - a.end_row
        IN  /\ (a.node_type = "struct_type" /\ b.node_type = "struct_type" /\ gap <= 20) =>
                  /\ Len(merged) = 1
                  /\ merged[1].start_row = a.start_row
                  /\ merged[1].end_row = IF a.end_row >= b.end_row THEN a.end_row
                                                                  ELSE b.end_row
            /\ (a.node_type = "function_item" /\ b.node_type = "function_item" /\ gap > 5) =>
                  /\ Len(merged) = 2
                  /\ merged = <<a, b>>

\* C10 witness: two struct_type blocks 20 rows apart, too far for the base
\* threshold, were merged into one
C10_Witness ==
    /\ op = "merge_code_blocks" /\ pc = "done"
    /\ Len(code_blocks) = 2
    /\ code_blocks[1].node_type = "struct_type" /\ code_blocks[2].node_type = "struct_type"
    /\ code_blocks[2].start_row - code_blocks[1].end_row = 20
    /\ Len(merged) = 1
    /\ merged[1].start_row = code_blocks[1].start_row
    /\ merged[1].end_row = code_blocks[2].end_row

(***************************************************************************)
(* Properties of the limiter.                                              *)
(***************************************************************************)
\* the sum of f(ranked[i]) over the positions listed in idx
SumOver(idx, f(_)) ==
    LET F[k \in 0..Len(idx)] == IF k = 0 THEN 0 ELSE F[k - 1] + f(ranked[idx[k]])
    IN  F[Len(idx)]
BytesOf(block) == block.bytes
BlockTokens(block) == (block.bytes + 3) \div 4

\* the accepted positions below i
AcceptedBefore(i) == SelectSeq(accepted, LAMBDA j : j < i)

\* C11: after truncation to max_results the limiter walks the blocks from the
\* highest score down; a block that would push the bytes over max_bytes or the
\* tokens over max_tokens is skipped and the walk continues, so at every step
\* count <= max_results, total_bytes <= max_bytes, estimated_tokens <=
\* max_tokens, and a block is accepted exactly when it still fits.
C11_LimiterBudgets ==
    (op = "limiter" /\ pc \in {"walk", "done"}) =>
        /\ Len(accepted) <= max_results
        /\ total_bytes <= max_bytes
        /\ total_tokens <= max_tokens
        /\ total_bytes = SumOver(accepted, BytesOf)
        /\ total_tokens = SumOver(accepted, BlockTokens)
        /\ Len(candidates) = IF max_results < Len(ranked) THEN max_results ELSE Len(ranked)
        /\ \A k \in 1..(Len(accepted) - 1) :
              /\ accepted[k] < accepted[k + 1]
              /\ ranked[accepted[k]].score >= ranked[accepted[k + 1]].score
        /\ \A i \in 1..cursor :
              \E before \in {AcceptedBefore(i)} :
                  LET fits == /\ SumOver(before, BytesOf) + ranked[i].bytes <= max_bytes
                              /\ SumOver(before, BlockTokens) + BlockTokens(ranked[i]) <= max_tokens
                  IN  /\ fits <=> (\E k \in 1..Len(accepted) : accepted[k] = i)
                      /\ ~fits <=> (\E k \in 1..Len(skipped) : skipped[k] = i)
        /\ pc = "done" => cursor = Len(candidates)

\* C11 witness: a block was skipped and a smaller, lower-ranked one accepted
\* after it
C11_Witness ==
    /\ op = "limiter" /\ pc = "done"
    /\ \E a \in 1..Len(skipped), b \in 1..Len(accepted) :
          /\ skipped[a] < accepted[b]
          /\ ranked[accepted[b]].bytes < ranked[skipped[a]].bytes
    /\ Len(accepted) >= 2

(***************************************************************************)
(* Properties of resolve_path.                                             *)
(***************************************************************************)
ResolveReturned == op = "resolve_path" /\ pc = "done"
StartsWith(str, pre) ==
    Len(str) >= Len(pre) /\ \A i \in 1..Len(pre) : str[i] = pre[i]
GoPrefix == <<"g", "o", ":">>
JsPrefix == <<"j", "s", ":">>
RustPrefix == <<"r", "u", "s", "t", ":">>
HasResolverPrefix ==
    StartsWith(path, GoPrefix) \/ StartsWith(path, JsPrefix) \/ StartsWith(path, RustPrefix)

\* C12: a path that starts with none of go:, js:, rust: comes back as Ok with
\* the path unchanged, and no resolver method is called for it.
C12_NoPrefixUnchanged ==
    (ResolveReturned /\ ~HasResolverPrefix) =>
        /\ resolved.ok
        /\ resolved.value = path
        /\ calls = <<>>

\* C12 witness: the regular path of test_resolve_path_regular came back as it
\* went in
C12_Witness ==
    /\ ResolveReturned
    /\ path = SomeRegularPath
    /\ resolved.ok /\ resolved.value = SomeRegularPath
    /\ calls = <<>>

(***************************************************************************)
(* Camel-case splitting of the query as typed.                             *)
(***************************************************************************)
\* the lowercased camel-case parts of the whitespace tokens of the query as
\* it was typed, in query order
TypedParts(q) ==
    CHOOSE parts \in { [i \in 1..Len(typed) |-> Lowercased(typed[i])] :
                         typed \in { Flatten([k \in 1..Len(toks) |-> split_camel_case(toks[k])]) :
                                       toks \in {TokensOf(q)} } } : TRUE

\* the originals of the returned pairs
Originals == [k \in 1..Len(pairs) |-> pairs[k][1]]

\* C13: with exact = false each whitespace token is split at the camel-case
\* boundaries of the query as the user typed it: "HTTPServer" gives the
\* originals "http" and "server", "ipWhitelisting" gives "ip" and
\* "whitelisting".
C13_CamelCaseAsTyped ==
    (op = "preprocess_query" /\ pc = "done" /\ ~exact) =>
        /\ \E parts \in {TypedParts(query)} :
              \E surviving \in {{i \in 1..Len(parts) :
                                    parts[i] # <<>> /\ parts[i] \notin StopWords}} :
                  /\ Len(pairs) = Cardinality(surviving)
                  /\ \A k \in 1..Len(pairs) :
                        \E i \in {Nth(surviving, k)} : pairs[k][1] = parts[i]
        /\ query = HTTPServer =>
              Originals = << <<"h", "t", "t", "p">>, <<"s", "e", "r", "v", "e", "r">> >>
        /\ query = ipWhitelisting => Originals = <<Ip, Whitelisting>>

\* the first resolver, in the order Go, JavaScript, Rust, whose prefix the
\* path starts with
FirstMatching ==
    IF StartsWith(path, GoPrefix) THEN <<"go", GoPrefix>>
    ELSE IF StartsWith(path, JsPrefix) THEN <<"js", JsPrefix>>
    ELSE <<"rust", RustPrefix>>

\* the number of "/" characters str begins with
LeadingSlashes(str) ==
    CHOOSE k \in 0..Len(str) :
        /\ \A i \in 1..k : str[i] = "/"
        /\ k = Len(str) \/ str[k + 1] # "/"

\* out is base followed by sub taken as a relative path
JoinedRelative(base, sub, out) ==
    LET rel == SubSeq(sub, LeadingSlashes(sub) + 1, Len(sub))
        sep == IF base # <<>> /\ base[Len(base)] # "/" THEN <<"/">> ELSE <<>>
    IN  out = base \o sep \o rel

\* C14: for a path with a resolver prefix only the first matching resolver is
\* used.  When its split_module_and_subpath fails the result is Err and
\* nothing else is called; when its resolve fails the result is Err; otherwise
\* the result is Ok(base) for an absent or empty subpath and Ok(base joined
\* with the subpath taken as relative) for any other.
C14_FirstMatchingResolver ==
    (ResolveReturned /\ HasResolverPrefix) =>
        \E first \in {FirstMatching} :
            /\ Len(calls) >= 1
            /\ \A k \in 1..Len(calls) : calls[k].resolver = first[1]
            /\ calls[1].method = "split_module_and_subpath"
            /\ calls[1].arg = SubSeq(path, Len(first[2]) + 1, Len(path))
            /\ IF ~calls[1].returned.ok
               THEN Len(calls) = 1 /\ ~resolved.ok
               ELSE /\ Len(calls) = 2
                    /\ calls[2].method = "resolve"
                    /\ calls[2].arg = calls[1].returned.value.module
                    /\ IF ~calls[2].returned.ok
                       THEN ~resolved.ok
                       ELSE LET base == calls[2].returned.value
                                sub  == calls[1].returned.value.sub
                            IN  /\ resolved.ok
                                /\ IF ~sub.some THEN resolved.value = base
                                   ELSE IF sub.value = <<>> THEN resolved.value = base
                                   ELSE JoinedRelative(base, sub.value, resolved.value)

\* C14 witness: js: path whose resolver returned the subpath "/get"; the
\* result is the base directory with "get" below it
C14_Witness ==
    /\ ResolveReturned
    /\ StartsWith(path, JsPrefix)
    /\ Len(calls) = 2
    /\ calls[1].returned.ok
    /\ calls[1].returned.value.sub.some
    /\ calls[1].returned.value.sub.value = <<"/", "g", "e", "t">>
    /\ calls[2].returned.ok
    /\ calls[2].returned.value = <<"/", "m">>
    /\ resolved.ok
    /\ resolved.value = <<"/", "m", "/", "g", "e", "t">>

====
